---- MODULE Spec2Model ----
(***************************************************************************)
(* Inventory service: the create-product transaction of "Part 1/app.py"    *)
(* and the low-stock alert query of "Part 3/app.py".                       *)
(*                                                                         *)
(* The two programs are separate Flask applications with separate stores,  *)
(* so the module has two groups of variables and a specification for each: *)
(*   SpecCreate    concurrent create_product requests (Part 1)             *)
(*   SpecValidate  one create_product request over the full input grid     *)
(*   SpecAlerts    the store of Part 3 and low_stock_alerts queries        *)
(***************************************************************************)
EXTENDS Integers, Sequences, FiniteSets, Bags

VARIABLES
    \* ---- Part 1/app.py ----
    p1_products,    \* committed rows of table products: [id, sku]
    p1_inventory,   \* committed rows of table inventory: [product_id, warehouse_id, quantity]
    nextId,         \* next value of the products.id sequence
    nreq,           \* number of requests received so far
    pc,             \* per request handler: position in create_product
    req,            \* per request handler: request.json
    product,        \* per request handler: the Product object of the session (id 0: no id yet)
    invrow,         \* per request handler: rows of inventory inserted and not yet committed
    response,       \* per request handler: the (body, status) returned
    fault,          \* per request handler: a storage fault was injected into the request
    \* ---- Part 3/app.py ----
    companies,      \* table companies: the set of ids
    warehouses,     \* table warehouses: row i has id i, [company_id]
    products,       \* table products: row i has id i, [company_id, is_bundle]
    inventory,      \* table inventory: rows [product_id, warehouse_id, quantity]
    sales,          \* table sales: a bag of rows [product_id, quantity, sold_at] (the id is never read)
    query,          \* the last low_stock_alerts request: <<>> or <<[company_id, today]>>
    result          \* what it returned

vars1 == <<p1_products, p1_inventory, nextId, nreq, pc, req, product, invrow, response,
           fault>>

vars3 == <<companies, warehouses, products, inventory, sales, query, result>>

vars == <<vars1, vars3>>

----------------------------------------------------------------------------
(* Bounds of the model *)

NumHandlers == 2
MaxRequests == 3
MaxInventory == 2
MaxSales == 1

Handlers == 1..NumHandlers

\* The ids the tables of Part 3 may hold.
CompanyIds == 1..2
WarehouseIds == 1..2
ProductIds == 1..2

----------------------------------------------------------------------------
(* Part 1/app.py: constants *)

HTTP_200_OK == 200
HTTP_201_CREATED == 201
HTTP_400_BAD_REQUEST == 400
HTTP_500_INTERNAL_SERVER_ERROR == 500

ERROR_NO_JSON == "No JSON data provided"
ERROR_VALIDATION == "Validation failed"
ERROR_SKU_EXISTS == "SKU already exists"
ERROR_DATABASE == "Database error occurred"

NAME_MAX == 255
SKU_MAX == 100

\* A request body value: the key is absent, null, of the wrong type, or a value.
\* Strings are sequences of characters; price is in hundredths (a float > 0
\* such as 0.01 is the value 1).
Missing(d) == [k |-> "missing", v |-> d]
Null(d) == [k |-> "null", v |-> d]
Malformed(d) == [k |-> "malformed", v |-> d]
Val(x) == [k |-> "value", v |-> x]

Rep(n) == [i \in 1..n |-> "x"]

FieldNames == {"name", "sku", "price", "warehouse_id", "initial_quantity", "supplier_id"}
RequiredFields == {"name", "sku", "price", "warehouse_id", "initial_quantity"}

\* fields.Length(min, max)
Length(min, max, value) == min <= Len(value) /\ Len(value) <= max

\* validate_non_negative raises when value < 0
validate_non_negative(value) == ~(value < 0)

\* validate_positive_price raises when value <= 0
validate_positive_price(value) == ~(value <= 0)

\* lambda x: x > 0
validate_positive(value) == value > 0

\* A required field: absent, null and wrong type are errors, then the validator.
Required(f) == f.k = "value"

NameValid(v) == Length(1, NAME_MAX, v)
SkuValid(v) == Length(1, SKU_MAX, v)

\* ProductSchema: the set of fields the load reports an error for.
ValidationErrors(r) ==
    {n \in FieldNames :
        \/ n = "name" /\ ~(Required(r.name) /\ NameValid(r.name.v))
        \/ n = "sku" /\ ~(Required(r.sku) /\ SkuValid(r.sku.v))
        \/ n = "price" /\ ~(Required(r.price) /\ validate_positive_price(r.price.v))
        \/ n = "warehouse_id" /\ ~(Required(r.warehouse_id) /\ validate_positive(r.warehouse_id.v))
        \/ n = "initial_quantity" /\ ~(Required(r.initial_quantity) /\ validate_non_negative(r.initial_quantity.v))
        \/ n = "supplier_id" /\ (\/ r.supplier_id.k = "malformed"
                                 \/ (r.supplier_id.k = "value"
                                     /\ ~validate_positive(r.supplier_id.v)))}

\* `not request.json`: the body is the empty object (it carries no key).
BodyEmpty(r) == \A n \in FieldNames : r[n].k = "missing"

\* create_response(success, data, error, status_code); fields is the content of
\* e.messages, product_id the content of data.
create_response(success, product_id, error, fields, status_code) ==
    [success |-> success, product_id |-> product_id, error |-> error,
     fields |-> fields, status_code |-> status_code]

NoResponse == create_response(FALSE, 0, "", {}, 0)
NoProduct == [id |-> 0, sku |-> <<>>]

----------------------------------------------------------------------------
(* Inputs *)

NameValues == {Missing(<<>>), Null(<<>>), Malformed(<<>>),
               Val(Rep(0)), Val(Rep(1)), Val(Rep(NAME_MAX)), Val(Rep(NAME_MAX + 1))}
SkuValues == {Missing(<<>>), Malformed(<<>>),
              Val(Rep(0)), Val(<<"A">>), Val(Rep(SKU_MAX)), Val(Rep(SKU_MAX + 1))}
PriceValues == {Missing(0), Malformed(0), Val(-500), Val(0), Val(1)}
WarehouseValues == {Missing(0), Malformed(0), Val(0), Val(1)}
QuantityValues == {Missing(0), Malformed(0), Val(-1), Val(0), Val(5)}
SupplierValues == {Missing(0), Null(0), Malformed(0), Val(0), Val(1)}

AllRequests ==
    [name : NameValues, sku : SkuValues, price : PriceValues,
     warehouse_id : WarehouseValues, initial_quantity : QuantityValues,
     supplier_id : SupplierValues]

ValidRequest(sku, qty) ==
    [name |-> Val(Rep(1)), sku |-> Val(sku), price |-> Val(1),
     warehouse_id |-> Val(1), initial_quantity |-> Val(qty), supplier_id |-> Missing(0)]

EmptyBody ==
    [name |-> Missing(<<>>), sku |-> Missing(<<>>), price |-> Missing(0),
     warehouse_id |-> Missing(0), initial_quantity |-> Missing(0),
     supplier_id |-> Missing(0)]

\* The requests of the concurrent specification: two SKUs, and a request the
\* schema rejects (name missing, price = -5).
RaceRequests ==
    {ValidRequest(<<"A">>, 0), ValidRequest(<<"B">>, 5),
     [ValidRequest(<<"A">>, 0) EXCEPT !.name = Missing(<<>>), !.price = Val(-500)],
     EmptyBody}

----------------------------------------------------------------------------
(* Part 1/app.py: create_product *)

Init1 ==
    /\ p1_products = {}
    /\ p1_inventory = {}
    /\ nextId = 1
    /\ nreq = 0
    /\ pc = [h \in Handlers |-> "idle"]
    /\ req = [h \in Handlers |-> EmptyBody]
    /\ product = [h \in Handlers |-> NoProduct]
    /\ invrow = [h \in Handlers |-> {}]
    /\ response = [h \in Handlers |-> NoResponse]
    /\ fault = [h \in Handlers |-> FALSE]

\* The rows another open transaction has inserted and not committed.
Uncommitted(h) ==
    {product[g] : g \in {g \in Handlers : g # h /\ pc[g] \in {"flushed", "inv_flushed"}}}

\* Mutant of UniqueWait: the insert does not wait for the open transaction.
UniqueWait_NoWait(h, sku) == FALSE

\* Column sku is unique: an insert that meets an uncommitted row with the same
\* SKU waits for that transaction to end.
UniqueWait(h, sku) == \E p \in Uncommitted(h) : p.sku = sku

\* Mutant of UniqueViolation: column sku is not declared unique.
UniqueViolation_NotUnique(sku) == FALSE

\* Column sku is unique: the insert is refused when a committed row has the SKU.
UniqueViolation(sku) == \E p \in p1_products : p.sku = sku

Finish(h, resp) ==
    /\ pc' = [pc EXCEPT ![h] = "done"]
    /\ response' = [response EXCEPT ![h] = resp]

\* The session's rollback: the rows the transaction inserted are dropped.
Rollback(h) ==
    /\ invrow' = [invrow EXCEPT ![h] = {}]
    /\ UNCHANGED <<p1_products, p1_inventory>>

\* Lines 114-131: the body check, the schema load, and session.begin().
CreateProduct(h, r) ==
    /\ pc[h] \in {"idle", "done"}
    /\ nreq < MaxRequests
    /\ nreq' = nreq + 1
    /\ req' = [req EXCEPT ![h] = r]
    /\ product' = [product EXCEPT ![h] = NoProduct]
    /\ invrow' = [invrow EXCEPT ![h] = {}]
    /\ fault' = [fault EXCEPT ![h] = FALSE]
    /\ IF BodyEmpty(r)
         THEN Finish(h, create_response(FALSE, 0, ERROR_NO_JSON, {}, HTTP_400_BAD_REQUEST))
         ELSE IF ValidationErrors(r) # {}
           THEN Finish(h, create_response(FALSE, 0, ERROR_VALIDATION, ValidationErrors(r),
                                          HTTP_400_BAD_REQUEST))
           ELSE /\ pc' = [pc EXCEPT ![h] = "begun"]
                /\ response' = [response EXCEPT ![h] = NoResponse]
    /\ UNCHANGED <<p1_products, p1_inventory, nextId>>
    /\ UNCHANGED vars3

\* Lines 132-139: the Product is added and flushed (INSERT INTO products), which
\* assigns product.id; a duplicate SKU raises IntegrityError, the with block
\* rolls back and the handler of lines 162-166 answers.
FlushProduct(h) ==
    /\ pc[h] = "begun"
    /\ ~UniqueWait(h, req[h].sku.v)
    /\ IF UniqueViolation(req[h].sku.v)
         THEN /\ Rollback(h)
              /\ Finish(h, create_response(FALSE, 0, ERROR_SKU_EXISTS, {}, HTTP_400_BAD_REQUEST))
              /\ UNCHANGED <<nextId, product>>
         ELSE /\ product' = [product EXCEPT ![h] = [id |-> nextId, sku |-> req[h].sku.v]]
              /\ nextId' = nextId + 1
              /\ pc' = [pc EXCEPT ![h] = "flushed"]
              /\ UNCHANGED <<p1_products, p1_inventory, invrow, response>>
    /\ UNCHANGED <<nreq, req, fault>>
    /\ UNCHANGED vars3

\* Lines 141-146 and the flush of the commit: INSERT INTO inventory.
InsertInventory(h) ==
    /\ pc[h] = "flushed"
    /\ invrow' = [invrow EXCEPT ![h] =
                    {[product_id |-> product[h].id, warehouse_id |-> req[h].warehouse_id.v,
                      quantity |-> req[h].initial_quantity.v]}]
    /\ pc' = [pc EXCEPT ![h] = "inv_flushed"]
    /\ UNCHANGED <<p1_products, p1_inventory, nextId, nreq, req, product, response, fault>>
    /\ UNCHANGED vars3

\* The rows a COMMIT makes visible.
CommittedProducts(h) == p1_products \cup {product[h]}
CommittedInventory(h) == p1_inventory \cup invrow[h]

\* End of the with block (line 146): COMMIT.
Commit(h) ==
    /\ pc[h] = "inv_flushed"
    /\ p1_products' = CommittedProducts(h)
    /\ p1_inventory' = CommittedInventory(h)
    /\ invrow' = [invrow EXCEPT ![h] = {}]
    /\ pc' = [pc EXCEPT ![h] = "committed"]
    /\ UNCHANGED <<nextId, nreq, req, product, response, fault>>
    /\ UNCHANGED vars3

\* Lines 148-153: product.id is read after the commit.  The commit expired the
\* object (expire_on_commit is the session's default), so the read begins a new
\* transaction and selects the row.
Respond(h) ==
    /\ pc[h] = "committed"
    /\ Finish(h, create_response(TRUE, product[h].id, "", {}, HTTP_201_CREATED))
    /\ UNCHANGED <<p1_products, p1_inventory, nextId, nreq, req, product, invrow, fault>>
    /\ UNCHANGED vars3

\* A storage fault (any exception that is no IntegrityError) at a statement of
\* the transaction: the with block rolls back, lines 168-171 answer.
StorageFault(h) ==
    /\ pc[h] \in {"begun", "flushed", "inv_flushed"}
    /\ Rollback(h)
    /\ Finish(h, create_response(FALSE, 0, ERROR_DATABASE, {}, HTTP_500_INTERNAL_SERVER_ERROR))
    /\ fault' = [fault EXCEPT ![h] = TRUE]
    /\ UNCHANGED <<nextId, nreq, req, product>>
    /\ UNCHANGED vars3

\* A storage fault at the select of line 148: lines 168-171 answer, and the
\* rollback finds nothing to undo.
RefreshFault(h) ==
    /\ pc[h] = "committed"
    /\ Rollback(h)
    /\ Finish(h, create_response(FALSE, 0, ERROR_DATABASE, {}, HTTP_500_INTERNAL_SERVER_ERROR))
    /\ fault' = [fault EXCEPT ![h] = TRUE]
    /\ UNCHANGED <<nextId, nreq, req, product>>
    /\ UNCHANGED vars3

Step(h) ==
    \/ FlushProduct(h)
    \/ InsertInventory(h)
    \/ Commit(h)
    \/ Respond(h)
    \/ StorageFault(h)
    \/ RefreshFault(h)

----------------------------------------------------------------------------
(* Part 3/app.py: the store *)

\* Values of the inputs: stock levels around the two thresholds, sale
\* quantities, one value of each that the CHECK constraints refuse, and dates
\* that fall 30 and 31 days before, on and after today.
InventoryQuantities == {-1, 0, 9, 10, 19, 20}
SaleQuantities == {-30, 30}
Todays == {100, 101}
SaleDates == {70, 101}

NoQuery == <<>>
NoResult == [status_code |-> 0, error |-> "", alerts |-> {}, total_alerts |-> 0]

Init3 ==
    /\ companies = {}
    /\ warehouses = <<>>
    /\ products = <<>>
    /\ inventory = {}
    /\ sales = EmptyBag
    /\ query = NoQuery
    /\ result = NoResult

\* The store is written before it is queried: a result in the state is the
\* result of the store in the state.
Unqueried ==
    /\ query = NoQuery
    /\ UNCHANGED <<query, result>>

\* class Company: id autoincrement.
InsertCompany ==
    /\ Cardinality(companies) + 1 \in CompanyIds
    /\ warehouses = <<>> /\ products = <<>> /\ inventory = {} /\ sales = EmptyBag
    /\ companies' = companies \cup {Cardinality(companies) + 1}
    /\ Unqueried
    /\ UNCHANGED <<warehouses, products, inventory, sales>>
    /\ UNCHANGED vars1

\* class Warehouse: company_id references companies.id.
InsertWarehouse(company_id) ==
    /\ Len(warehouses) + 1 \in WarehouseIds
    /\ products = <<>> /\ inventory = {} /\ sales = EmptyBag
    /\ company_id \in companies
    /\ warehouses' = Append(warehouses, [company_id |-> company_id])
    /\ Unqueried
    /\ UNCHANGED <<companies, products, inventory, sales>>
    /\ UNCHANGED vars1

\* class Product: company_id references companies.id; is_bundle.
InsertProduct(company_id, is_bundle) ==
    /\ Len(products) + 1 \in ProductIds
    /\ inventory = {} /\ sales = EmptyBag
    /\ company_id \in companies
    /\ products' = Append(products, [company_id |-> company_id, is_bundle |-> is_bundle])
    /\ Unqueried
    /\ UNCHANGED <<companies, warehouses, inventory, sales>>
    /\ UNCHANGED vars1

\* class Inventory: (product_id, warehouse_id) unique, quantity >= 0.
InsertInventoryRow(product_id, warehouse_id, quantity) ==
    /\ Cardinality(inventory) < MaxInventory
    /\ sales = EmptyBag
    /\ product_id \in DOMAIN products
    /\ warehouse_id \in DOMAIN warehouses
    /\ ~\E i \in inventory : i.product_id = product_id /\ i.warehouse_id = warehouse_id
    /\ quantity >= 0
    /\ inventory' = inventory \cup {[product_id |-> product_id, warehouse_id |-> warehouse_id,
                                     quantity |-> quantity]}
    /\ Unqueried
    /\ UNCHANGED <<companies, warehouses, products, sales>>
    /\ UNCHANGED vars1

\* class Sale: product_id references products.id, quantity > 0, sold_at a date.
InsertSale(product_id, quantity, sold_at) ==
    /\ BagCardinality(sales) < MaxSales
    /\ product_id \in DOMAIN products
    /\ quantity > 0
    /\ sales' = sales (+) SetToBag({[product_id |-> product_id, quantity |-> quantity,
                                     sold_at |-> sold_at]})
    /\ Unqueried
    /\ UNCHANGED <<companies, warehouses, products, inventory>>
    /\ UNCHANGED vars1

----------------------------------------------------------------------------
(* Part 3/app.py: low_stock_alerts *)

HTTP_404_NOT_FOUND == 404
ERROR_COMPANY_NOT_FOUND == "Company not found"
ERROR_INTERNAL == "Internal server error"

recent_days == 30
threshold_standard == 20
threshold_bundle == 10

\* Mutant of CompanyExists: the company is not looked up.
CompanyExists_Unchecked(company_id) == TRUE

\* Lines 105-106: db.session.query(Company).filter_by(id=company_id).first()
CompanyExists(company_id) == company_id \in companies

\* threshold_by_type.get(ptype, threshold_by_type['standard'])
threshold_by_type(ptype) ==
    IF ptype = "bundle" THEN threshold_bundle ELSE threshold_standard

\* date.today() - timedelta(days=recent_days)
since_date(today) == today - recent_days

\* The filter of the aggregation on the sale date.
SaleDateFilter(sold_at, today) == sold_at >= since_date(today)

\* The filter of both queries on the warehouse.
WarehouseFilter(warehouse_id, company_id) == warehouses[warehouse_id].company_id = company_id

\* The rows of Sale JOIN Product JOIN Inventory JOIN Warehouse that pass the
\* filter, for one product: one row per (sale, inventory row) pair.
SaleRows == {<<s, n>> \in BagToSet(sales) \X (1..MaxSales) : n <= CopiesIn(s, sales)}

JoinedSales(product_id, company_id, today) ==
    {<<sn, i>> \in SaleRows \X inventory :
        /\ sn[1].product_id = product_id
        /\ i.product_id = product_id
        /\ WarehouseFilter(i.warehouse_id, company_id)
        /\ SaleDateFilter(sn[1].sold_at, today)}

RECURSIVE SumQuantity(_)
SumQuantity(rows) ==
    IF rows = {} THEN 0
    ELSE LET r == CHOOSE r \in rows : TRUE
         IN r[1][1].quantity + SumQuantity(rows \ {r})

\* sales_lookup.get(product.id, 0): func.sum(Sale.quantity) of the joined rows
\* of the product, 0 when the product has no joined row.
sales_lookup(product_id, company_id, today) ==
    SumQuantity(JoinedSales(product_id, company_id, today))

\* The rows of Inventory JOIN Product JOIN Warehouse of the company.
inventories(company_id) ==
    {i \in inventory : WarehouseFilter(i.warehouse_id, company_id)}

\* int(current_qty / daily_avg) if daily_avg > 0 else None, with
\* daily_avg = sales_sum / recent_days.  None is <<>>, a number n is <<n>>.
\* For 0 <= current_qty <= 20 and 1 <= sales_sum < 400 the float quotient
\* truncates to the exact floor of recent_days * current_qty / sales_sum.
days_until_stockout(current_qty, sales_sum) ==
    IF sales_sum > 0 THEN <<(recent_days * current_qty) \div sales_sum>> ELSE <<>>

Threshold(i) == threshold_by_type(IF products[i.product_id].is_bundle THEN "bundle" ELSE "standard")

\* Mutant of Alerting: products without recent sales are not skipped.
Alerting_NoSkip(i, company_id, today) ==
    ~(i.quantity >= Threshold(i))

\* Mutant of Alerting: stock equal to the threshold alerts too.
Alerting_AtThreshold(i, company_id, today) ==
    /\ sales_lookup(i.product_id, company_id, today) # 0
    /\ ~(i.quantity > Threshold(i))

\* The loop of lines 151-188 keeps an inventory row when the product has recent
\* sales and the stock is below the threshold.
Alerting(i, company_id, today) ==
    /\ sales_lookup(i.product_id, company_id, today) # 0
    /\ ~(i.quantity >= Threshold(i))

Alert(i, company_id, today) ==
    [product_id |-> i.product_id,
     warehouse_id |-> i.warehouse_id,
     current_stock |-> i.quantity,
     threshold |-> Threshold(i),
     days_until_stockout |->
         days_until_stockout(i.quantity, sales_lookup(i.product_id, company_id, today))]

Alerts(company_id, today) ==
    {Alert(i, company_id, today) :
        i \in {i \in inventories(company_id) : Alerting(i, company_id, today)}}

\* len(alerts)
total_alerts(alerts) == Cardinality(alerts)

low_stock_alerts(company_id, today) ==
    /\ query = NoQuery
    /\ query' = <<[company_id |-> company_id, today |-> today]>>
    /\ IF ~CompanyExists(company_id)
         THEN result' = [status_code |-> HTTP_404_NOT_FOUND, error |-> ERROR_COMPANY_NOT_FOUND,
                         alerts |-> {}, total_alerts |-> 0]
         ELSE result' = [status_code |-> HTTP_200_OK, error |-> "",
                         alerts |-> Alerts(company_id, today),
                         total_alerts |-> total_alerts(Alerts(company_id, today))]
    /\ UNCHANGED <<companies, warehouses, products, inventory, sales>>
    /\ UNCHANGED vars1

\* Lines 196-198: an exception of the session answers 500 (today 0: the date
\* of the request plays no part).
low_stock_alerts_fault(company_id) ==
    /\ query = NoQuery
    /\ query' = <<[company_id |-> company_id, today |-> 0]>>
    /\ result' = [status_code |-> HTTP_500_INTERNAL_SERVER_ERROR, error |-> ERROR_INTERNAL,
                  alerts |-> {}, total_alerts |-> 0]
    /\ UNCHANGED <<companies, warehouses, products, inventory, sales>>
    /\ UNCHANGED vars1

----------------------------------------------------------------------------
(* Specifications *)

Init == Init1 /\ Init3

NextCreate ==
    \E h \in Handlers :
        \/ \E r \in RaceRequests : CreateProduct(h, r)
        \/ Step(h)

SpecCreate == Init /\ [][NextCreate]_vars

\* One handler, one request, drawn from the whole grid of inputs.
NextValidate ==
    \/ \E r \in AllRequests : nreq = 0 /\ CreateProduct(1, r)
    \/ Step(1)

SpecValidate == Init /\ [][NextValidate]_vars

NextAlerts ==
    \/ InsertCompany
    \/ \E c \in companies : InsertWarehouse(c)
    \/ \E c \in companies, b \in BOOLEAN : InsertProduct(c, b)
    \/ \E p \in DOMAIN products, w \in DOMAIN warehouses, q \in InventoryQuantities :
          InsertInventoryRow(p, w, q)
    \/ \E p \in DOMAIN products, q \in SaleQuantities, d \in SaleDates : InsertSale(p, q, d)
    \/ \E c \in CompanyIds, t \in Todays : low_stock_alerts(c, t)
    \/ \E c \in CompanyIds : low_stock_alerts_fault(c)

SpecAlerts == Init /\ [][NextAlerts]_vars

----------------------------------------------------------------------------
(* Part 1/app.py: the properties *)

DuplicateSKU == create_response(FALSE, 0, ERROR_SKU_EXISTS, {}, HTTP_400_BAD_REQUEST)
StorageFailure == create_response(FALSE, 0, ERROR_DATABASE, {}, HTTP_500_INTERNAL_SERVER_ERROR)

Accepted(r) == ~BodyEmpty(r) /\ ValidationErrors(r) = {}

RowsOf(h) ==
    {p \in p1_products : p.id = product[h].id}
        \cup {i \in p1_inventory : i.product_id = product[h].id}

\* Every committed Product row has its Inventory row and the reverse.
PairedRows ==
    /\ \A p \in p1_products : \E i \in p1_inventory : i.product_id = p.id
    /\ \A i \in p1_inventory : \E p \in p1_products : p.id = i.product_id

\* C1: product creation is all-or-nothing.  The committed store holds a Product
\* row if and only if it holds the Inventory row created with it, and a request
\* that was answered with a failure has left no row of its own in the store.
C1_AllOrNothing ==
    /\ PairedRows
    /\ \A h \in Handlers :
         (pc[h] = "done" /\ ~response[h].success) => RowsOf(h) = {}

\* The step in which a request that was accepted, and whose SKU a committed
\* Product has, executes its insert without a storage fault.
C2_DuplicateStep(h) ==
    (/\ pc[h] = "begun"
     /\ pc'[h] # "begun"
     /\ ~fault'[h]
     /\ \E p \in p1_products : p.sku = req[h].sku.v)
    => /\ pc'[h] = "done"
       /\ response'[h] = DuplicateSKU
       /\ response'[h] # StorageFailure
       /\ response'[h].status_code = HTTP_400_BAD_REQUEST
       /\ p1_products' = p1_products
       /\ p1_inventory' = p1_inventory
       /\ Cardinality({p \in p1_products' : p.sku = req[h].sku.v}) = 1

C2_UniqueSku ==
    \A p, q \in p1_products : p.sku = q.sku => p = q

\* C2: a valid request whose SKU a committed Product already has is answered
\* DuplicateSKU (status 400, "SKU already exists", which is not the answer to a
\* storage failure) unless a storage fault is injected, and leaves the store as
\* it was, with exactly one Product of that SKU; and no two committed Product
\* rows ever share a SKU.
C2_DuplicateSKU ==
    /\ [][\A h \in Handlers : C2_DuplicateStep(h)]_vars
    /\ []C2_UniqueSku

\* C2, witness: a request was answered DuplicateSKU and the store holds one
\* Product of its SKU, with its Inventory row.
C2_Witness ==
    \E h \in Handlers :
        /\ pc[h] = "done"
        /\ response[h] = DuplicateSKU
        /\ Cardinality({p \in p1_products : p.sku = req[h].sku.v}) = 1
        /\ Cardinality(p1_inventory) = 1

\* The requests with SKU sku that were accepted, met no storage fault and have
\* been answered.
Racers(sku) ==
    {h \in Handlers : /\ pc[h] = "done"
                      /\ Accepted(req[h])
                      /\ req[h].sku.v = sku
                      /\ ~fault[h]}

Winners(sku) == {h \in Racers(sku) : response[h].success}

\* C3: of the create-product transactions that race for one SKU, one commits
\* and every other one is answered DuplicateSKU with nothing of its own in the
\* store; while a transaction is open none of its rows is in the committed
\* store.  (Transactions that meet no storage fault.)
C3_RaceOneWinner ==
    /\ \A h \in Handlers :
         pc[h] \in {"begun", "flushed", "inv_flushed"} => RowsOf(h) = {}
    /\ \A sku \in {r.sku.v : r \in {r \in RaceRequests : Accepted(r)}} :
         Racers(sku) # {} =>
           /\ Cardinality({p \in p1_products : p.sku = sku}) = 1
           /\ Cardinality(Winners(sku)) <= 1
           /\ nreq = Cardinality(Racers(sku)) => Cardinality(Winners(sku)) = 1
           /\ \A h \in Winners(sku) :
                /\ response[h].product_id = product[h].id
                /\ product[h] \in p1_products
                /\ Cardinality(RowsOf(h)) = 2
           /\ \A h \in Racers(sku) \ Winners(sku) :
                /\ response[h] = DuplicateSKU
                /\ RowsOf(h) = {}

\* C3, witness: two requests for one SKU have been answered, one created the
\* product and the other was answered DuplicateSKU, and no other request was
\* made.
C3_Witness ==
    \E g, h \in Handlers :
        /\ g # h
        /\ nreq = 2
        /\ {g, h} \subseteq Racers(req[g].sku.v)
        /\ response[g].success
        /\ response[h] = DuplicateSKU

\* The fields of a request that are missing, malformed or break their
\* constraint: name 1-255 characters, sku 1-100 characters, price > 0,
\* warehouse_id > 0, initial_quantity >= 0, supplier_id > 0 or absent.
Offending(r) ==
    {n \in RequiredFields : r[n].k # "value"}
        \cup {n \in {"name"} : r[n].k = "value" /\ (Len(r[n].v) < 1 \/ Len(r[n].v) > 255)}
        \cup {n \in {"sku"} : r[n].k = "value" /\ (Len(r[n].v) < 1 \/ Len(r[n].v) > 100)}
        \cup {n \in {"price", "warehouse_id"} : r[n].k = "value" /\ r[n].v <= 0}
        \cup {n \in {"initial_quantity"} : r[n].k = "value" /\ r[n].v < 0}
        \cup {n \in {"supplier_id"} :
                r[n].k = "malformed" \/ (r[n].k = "value" /\ r[n].v <= 0)}

\* C4: a request with at least one offending field is answered with a
\* ValidationFailure that names exactly the offending fields, before any
\* storage access.
C4_NamesOffendingFields ==
    \A h \in Handlers :
        (pc[h] # "idle" /\ Offending(req[h]) # {}) =>
            /\ pc[h] = "done"
            /\ response[h].error = ERROR_VALIDATION
            /\ response[h].status_code = HTTP_400_BAD_REQUEST
            /\ response[h].fields = Offending(req[h])
            /\ product[h] = NoProduct
            /\ nextId = 1

----------------------------------------------------------------------------
(* Part 3/app.py: the properties *)

Answered == query # NoQuery
Success == Answered /\ result.status_code = HTTP_200_OK
QCompany == query[1].company_id
QToday == query[1].today

\* The inventory rows in the warehouses of a company, and the alerts for a row.
OwnedRows(company_id) ==
    {i \in inventory : warehouses[i.warehouse_id].company_id = company_id}

AlertsFor(i) ==
    {a \in result.alerts : a.product_id = i.product_id /\ a.warehouse_id = i.warehouse_id}

\* The lookback window of 30 days ending today.
InWindow(sold_at, today) == today - 30 <= sold_at /\ sold_at <= today

\* The product has a sale dated today - 30 or later.
HasSaleSince(product_id, today) ==
    \E s \in BagToSet(sales) : s.product_id = product_id /\ s.sold_at >= today - 30

RECURSIVE SumOnce(_)
SumOnce(rows) ==
    IF rows = {} THEN 0
    ELSE LET r == CHOOSE r \in rows : TRUE
         IN r[1].quantity + SumOnce(rows \ {r})

\* The quantities of the sales of a product dated today - 30 or later, each
\* sale counted once.
SalesOnce(product_id, today) ==
    SumOnce({sn \in SaleRows : /\ sn[1].product_id = product_id
                               /\ sn[1].sold_at >= today - 30})

\* C5: every alert returned for a company names a warehouse of that company
\* and a product of that company.
C5_CompanyScoping ==
    Success =>
        \A a \in result.alerts :
            /\ warehouses[a.warehouse_id].company_id = QCompany
            /\ products[a.product_id].company_id = QCompany

\* C6: days_until_stockout of every alert is floor(30 * current_quantity / S),
\* S the sum of the product's recent sales with each sale counted once.
C6_DaysUntilStockout ==
    Success =>
        \A a \in result.alerts :
            LET S == SalesOnce(a.product_id, QToday)
            IN /\ S > 0
               /\ a.days_until_stockout = <<(30 * a.current_stock) \div S>>

\* C7: an inventory row of the queried company whose product has recent sales
\* gets an alert if and only if its quantity is below 10 (bundle) or 20
\* (standard), and the alert carries that threshold.
C7_ThresholdCrossing ==
    Success =>
        \A i \in OwnedRows(QCompany) :
            HasSaleSince(i.product_id, QToday) =>
                LET thr == IF products[i.product_id].is_bundle THEN 10 ELSE 20
                IN /\ AlertsFor(i) # {} <=> i.quantity < thr
                   /\ Cardinality(AlertsFor(i)) <= 1
                   /\ \A a \in AlertsFor(i) :
                        a.threshold = thr /\ a.current_stock = i.quantity

\* C7, witness: a standard product with recent sales is held at 19 in one
\* warehouse of the company, which alerts with threshold 20, and at 20 in
\* another, which does not.
C7_Witness ==
    /\ Success
    /\ \E i, j \in OwnedRows(QCompany) :
         /\ i.product_id = j.product_id
         /\ ~products[i.product_id].is_bundle
         /\ HasSaleSince(i.product_id, QToday)
         /\ i.quantity = 19 /\ j.quantity = 20
         /\ \E a \in AlertsFor(i) : a.current_stock = 19 /\ a.threshold = 20
         /\ AlertsFor(j) = {}

\* C8: a product with no sale inside the recent window never produces an
\* alert: every alert names a product with a sale inside the window.
C8_NoSalesNoAlert ==
    Success =>
        \A a \in result.alerts :
            \E s \in BagToSet(sales) :
                s.product_id = a.product_id /\ InWindow(s.sold_at, QToday)

\* Nothing of the company is at risk: each of its inventory rows is at or above
\* the threshold of its product, or is of a product that was never sold.
NothingAtRisk(company_id) ==
    \A i \in OwnedRows(company_id) :
        \/ i.quantity >= (IF products[i.product_id].is_bundle THEN 10 ELSE 20)
        \/ ~\E s \in BagToSet(sales) : s.product_id = i.product_id

\* C9: a query for a company that is not in the store is answered NotFound and
\* never with a success; a query for a company that exists is answered with a
\* success, with an empty list and total_alerts = 0 when nothing is at risk;
\* total_alerts of a success is the number of alerts.  (A query that meets a
\* storage fault is answered 500.)
C9_NotFound ==
    Answered =>
        /\ QCompany \notin companies => result.status_code # HTTP_200_OK
        /\ result.status_code # HTTP_500_INTERNAL_SERVER_ERROR =>
             /\ QCompany \notin companies =>
                  /\ result.status_code = HTTP_404_NOT_FOUND
                  /\ result.error = ERROR_COMPANY_NOT_FOUND
             /\ QCompany \in companies =>
                  /\ result.status_code = HTTP_200_OK
                  /\ result.total_alerts = Cardinality(result.alerts)
                  /\ result.alerts = {} => result.total_alerts = 0
                  /\ NothingAtRisk(QCompany) =>
                       result.alerts = {} /\ result.total_alerts = 0

\* C9, witness: the store holds a company with stock, and a query for a company
\* id that is not in the store was answered NotFound.
C9_Witness ==
    /\ Answered
    /\ QCompany \notin companies
    /\ inventory # {}
    /\ result.status_code = HTTP_404_NOT_FOUND

\* A sale row is counted in the recent-sales total of its product.
Counted(sn, company_id, today) ==
    \E i \in inventory : <<sn, i>> \in JoinedSales(sn[1].product_id, company_id, today)

\* C10: a sale of a product the company stocks is counted in the recent-sales
\* total if and only if it is dated in the 30 days ending today: today - 30 and
\* today are counted, today - 31 and any day after today are not.
C10_Window ==
    Success =>
        \A sn \in SaleRows :
            (\E i \in OwnedRows(QCompany) : i.product_id = sn[1].product_id) =>
                (Counted(sn, QCompany, QToday) <=> InWindow(sn[1].sold_at, QToday))

\* The CHECK constraints of the tables: quantity > 0 on sales, quantity >= 0
\* on inventory.
SchemaConstraints ==
    /\ \A s \in BagToSet(sales) : s.quantity > 0
    /\ \A i \in inventory : i.quantity >= 0

\* C11: in a store that satisfies the CHECK constraints, every alert of a
\* successful query carries a days_until_stockout that is present (not None)
\* and a non-negative integer: the branch that reports None is not taken.
C11_DaysPresent ==
    (SchemaConstraints /\ Success) =>
        \A a \in result.alerts :
            /\ a.days_until_stockout # <<>>
            /\ Len(a.days_until_stockout) = 1
            /\ a.days_until_stockout[1] \in Nat

\* C11, witness: a successful query returned an alert for an empty shelf, with
\* zero days left, and an alert with stock left and a positive number of days.
C11_Witness ==
    /\ SchemaConstraints
    /\ Success
    /\ \E a, b \in result.alerts :
        /\ a.current_stock = 0
        /\ a.days_until_stockout = <<0>>
        /\ b.current_stock > 0
        /\ b.days_until_stockout # <<>>
        /\ b.days_until_stockout[1] > 0

====
